---- MODULE Spec2Model ----
(***************************************************************************)
(* Model of src/nomination-whist.py: the Card / Deck / Hand value objects, *)
(* BotPlayer.make_bid and BotPlayer.play_card, and the round engine        *)
(* GameState.play_game with its phases get_cards, bidding_phase,           *)
(* play_round / play_trick, score_round and next_round.                    *)
(***************************************************************************)
EXTENDS Integers, Sequences, FiniteSets, TLC

(***************************************************************************)
(* Bounds of the model (not program constants).                            *)
(***************************************************************************)
\* number of seeds the module-level random generator may start from
NumSeeds == 6
\* number of permutations Deck.shuffle may produce
NumShuffles == 2
\* largest tricks_won / bid value of the players handed to score_round
MaxUnit == 3
\* largest cumulative score of the players handed to score_round
MaxStartScore == 1
\* largest deck size of a direct call of Deck.draw
MaxDeckLen == 9
\* largest num_cards of a direct call of Deck.draw
MaxDrawCount == 9
\* largest max_tricks of a direct call of BotPlayer.make_bid
MaxTricksArg == 5

(***************************************************************************)
(* Python values.                                                          *)
(***************************************************************************)
\* Python's None (distinct from the string 'None' of round_info)
None == "<None>"

\* str.upper() on the one-letter suit names
upper(s) ==
    CASE s = "s" -> "S"
      [] s = "d" -> "D"
      [] s = "c" -> "C"
      [] s = "h" -> "H"
      [] OTHER -> s

(***************************************************************************)
(* class Card                                                              *)
(***************************************************************************)
RANK_VALUES ==
    [r \in {"2", "3", "4", "5", "6", "7", "8", "9", "10", "J", "Q", "K", "A"} |->
        CASE r = "2" -> 2 [] r = "3" -> 3 [] r = "4" -> 4 [] r = "5" -> 5
          [] r = "6" -> 6 [] r = "7" -> 7 [] r = "8" -> 8 [] r = "9" -> 9
          [] r = "10" -> 10 [] r = "J" -> 11 [] r = "Q" -> 12
          [] r = "K" -> 13 [] r = "A" -> 14]

Card(rank, suit) ==
    [rank |-> rank, suit |-> upper(suit), value |-> RANK_VALUES[rank]]

(***************************************************************************)
(* class Deck                                                              *)
(***************************************************************************)
ranks == <<"2", "3", "4", "5", "6", "7", "8", "9", "10", "J", "Q", "K", "A">>

suits == <<"S", "D", "C", "H">>

\* [Card(rank, suit) for suit in suits for rank in ranks]: suit-major order
generate_deck ==
    [i \in 1..(Len(suits) * Len(ranks)) |->
        Card(ranks[((i - 1) % Len(ranks)) + 1],
             suits[((i - 1) \div Len(ranks)) + 1])]

\* list.pop(): the last element is removed and returned
PopCard(cards) == cards[Len(cards)]

\* mutant of PopRest: the drawn card is read but stays in the deck
PopRest_keep(cards) == cards

PopRest(cards) == SubSeq(cards, 1, Len(cards) - 1)

\* Deck.shuffle(): random.shuffle permutes the list in place.  The s-th
\* permutation puts at position i the card that was at position
\* ((2s+1)*i + s) mod n, a bijection whenever 2s+1 and n are coprime
\* (n = 52, s <= 5).
ShuffleMult(s) == 2 * s + 1

\* mutant of shuffle: an even multiplier, so cards are repeated and lost
shuffle_dup(cards, s) ==
    [i \in 1..Len(cards) |-> cards[((2 * s * i + s) % Len(cards)) + 1]]

shuffle(cards, s) ==
    [i \in 1..Len(cards) |->
        cards[((ShuffleMult(s) * i + s) % Len(cards)) + 1]]

(***************************************************************************)
(* module random: the generator behind randint.  A 16-bit linear           *)
(* congruential generator stands for the library's generator; randint(a,b) *)
(* returns a value of a..b computed from the generator state.              *)
(***************************************************************************)
RngModulus == 65536

RngMult == 25173

RngInc == 13849

NextRng(s) == (s * RngMult + RngInc) % RngModulus

randint(a, b, s) == a + ((NextRng(s) \div 256) % (b - a + 1))

(***************************************************************************)
(* sequence helpers for min(..., key=value), max(..., key=value) and       *)
(* list.remove                                                             *)
(***************************************************************************)
\* min(cards, key=lambda card: card.value): first card of least value
MinCard(cards) ==
    cards[CHOOSE i \in 1..Len(cards) :
            /\ \A j \in 1..Len(cards) : cards[j].value >= cards[i].value
            /\ \A j \in 1..(i - 1) : cards[j].value > cards[i].value]

\* max(cards, key=lambda card: card.value): first card of greatest value
MaxCard(cards) ==
    cards[CHOOSE i \in 1..Len(cards) :
            /\ \A j \in 1..Len(cards) : cards[j].value <= cards[i].value
            /\ \A j \in 1..(i - 1) : cards[j].value < cards[i].value]

\* [card for card in cards if card.suit == suit]
CardsOfSuit(cards, suit) ==
    LET Test(c) == c.suit = suit IN SelectSeq(cards, Test)

\* mutant of RemoveFirst: the first card of the hand is removed instead
RemoveFirst_head(cards, x) == Tail(cards)

\* list.remove(x): removes the first element equal to x
RemoveFirst(cards, x) ==
    LET i == CHOOSE k \in 1..Len(cards) :
                 /\ cards[k] = x
                 /\ \A j \in 1..(k - 1) : cards[j] # x
    IN  SubSeq(cards, 1, i - 1) \o SubSeq(cards, i + 1, Len(cards))

SetMin(S) == CHOOSE x \in S : \A y \in S : x <= y

SetMax(S) == CHOOSE x \in S : \A y \in S : x >= y

(***************************************************************************)
(* class BotPlayer                                                         *)
(***************************************************************************)
\* possible_bids of make_bid after the conditional remove
possible_bids(max_tricks, total_bids) ==
    IF total_bids = max_tricks /\ max_tricks > 0
    THEN (0..max_tricks) \ {max_tricks - total_bids}
    ELSE 0..max_tricks

\* the value make_bid stores in self.bid, s being the generator state
make_bid(max_tricks, total_bids, s) ==
    IF possible_bids(max_tricks, total_bids) = {}
    THEN randint(0, max_tricks, s)
    ELSE randint(SetMin(possible_bids(max_tricks, total_bids)),
                 SetMax(possible_bids(max_tricks, total_bids)), s)

\* mutant of play_card: a follower plays its lowest card whatever was led
play_card_lowest(cards, lead, trump) ==
    IF cards = <<>> THEN None
    ELSE IF lead # None THEN MinCard(cards)
    ELSE MaxCard(cards)

\* the card play_card selects (None on an empty hand)
play_card(cards, lead, trump) ==
    IF cards = <<>> THEN None
    ELSE IF lead # None
    THEN IF CardsOfSuit(cards, lead) # <<>>
         THEN MinCard(CardsOfSuit(cards, lead))
         ELSE IF CardsOfSuit(cards, trump) # <<>>
              THEN MinCard(CardsOfSuit(cards, trump))
              ELSE MinCard(cards)
    ELSE MaxCard(cards)

(***************************************************************************)
(* class GameState                                                         *)
(***************************************************************************)
num_players == 4

max_rounds == 10

\* [BotPlayer(f"Bot {i+1}") for i in range(num_players)], in turn order
players == [i \in 1..num_players |-> "Bot " \o ToString(i)]

Players == {players[i] : i \in 1..num_players}

round_info ==
    [r \in 1..10 |->
        CASE r = 1 -> [cards |-> 10, trump |-> "Hearts"]
          [] r = 2 -> [cards |-> 9, trump |-> "Clubs"]
          [] r = 3 -> [cards |-> 8, trump |-> "Diamonds"]
          [] r = 4 -> [cards |-> 7, trump |-> "Spades"]
          [] r = 5 -> [cards |-> 6, trump |-> "None"]
          [] r = 6 -> [cards |-> 5, trump |-> "Hearts"]
          [] r = 7 -> [cards |-> 4, trump |-> "Clubs"]
          [] r = 8 -> [cards |-> 3, trump |-> "Diamonds"]
          [] r = 9 -> [cards |-> 2, trump |-> "Spades"]
          [] r = 10 -> [cards |-> 1, trump |-> "None"]]

\* determine_trick_winner(): the body is `pass`, the call returns None
determine_trick_winner == None

\* total_bid of bidding_phase: set to 0 and never updated
total_bid == 0

VARIABLES
    round,         \* GameState.round
    trump_suit,    \* GameState.trump_suit
    deck,          \* GameState.deck.cards
    hand,          \* player.hand.cards, per player
    tricks_won,    \* player.tricks_won, per player
    bid,           \* player.bid, per player
    player_score,  \* player.player_score, per player
    pc,            \* position in play_game
    dealt,         \* get_cards: number of cards drawn so far in this deal
    bidder,        \* bidding_phase: number of players that have bid
    tricks_played, \* play_round: number of tricks completed
    lead_suit,     \* play_trick: lead_suit
    trick_cards,   \* play_trick: trick_cards, (player, card) pairs
    rng,           \* state of the module-level random generator
    played,        \* history: (player, card) pairs played since the last new deck
    num_cards,     \* Deck.draw: argument num_cards of a direct call
    drawn,         \* Deck.draw: the cards returned by a direct call
    max_tricks,    \* BotPlayer.make_bid: argument max_tricks of a direct call
    total_bids     \* BotPlayer.make_bid: argument total_bids of a direct call

vars == <<round, trump_suit, deck, hand, tricks_won, bid, player_score, pc,
          dealt, bidder, tricks_played, lead_suit, trick_cards, rng, played,
          num_cards, drawn, max_tricks, total_bids>>

\* arguments and results of direct calls of Deck.draw and BotPlayer.make_bid;
\* play_game makes no such call
callvars == <<num_cards, drawn, max_tricks, total_bids>>

\* no direct call has been made
NoCall ==
    /\ num_cards = 0
    /\ drawn = <<>>
    /\ max_tricks = 0
    /\ total_bids = 0

\* PlayerBase.__init__ and GameState.__init__
Init ==
    /\ round = 1
    /\ trump_suit = None
    /\ deck = generate_deck
    /\ hand = [p \in Players |-> <<>>]
    /\ tricks_won = [p \in Players |-> 0]
    /\ bid = [p \in Players |-> 0]
    /\ player_score = [p \in Players |-> 0]
    /\ pc = "while"
    /\ dealt = 0
    /\ bidder = 0
    /\ tricks_played = 0
    /\ lead_suit = None
    /\ trick_cards = <<>>
    /\ rng \in 0..(NumSeeds - 1)
    /\ played = <<>>
    /\ NoCall

\* mutant of KeepPlaying: the loop stops one round early
KeepPlaying_lt == round < max_rounds

\* while self.round <= self.max_rounds
KeepPlaying == round <= max_rounds

\* the phase reached once the deal loop of get_cards has drawn n cards
AfterDeal(n) ==
    IF n = round_info[round].cards * num_players THEN "bid" ELSE "deal"

\* play_game, loop head: new deck, shuffle, trump suit of the round
StartRound ==
    /\ pc = "while"
    /\ KeepPlaying
    /\ \E s \in 1..NumShuffles : deck' = shuffle(generate_deck, s)
    /\ trump_suit' = round_info[round].trump
    /\ dealt' = 0
    /\ played' = <<>>
    /\ pc' = AfterDeal(0)
    /\ UNCHANGED <<round, hand, tricks_won, bid, player_score, bidder,
                   tricks_played, lead_suit, trick_cards, rng>>
    /\ UNCHANGED callvars

\* play_game, loop exit
GameOver ==
    /\ pc = "while"
    /\ ~KeepPlaying
    /\ pc' = "done"
    /\ UNCHANGED <<round, trump_suit, deck, hand, tricks_won, bid,
                   player_score, dealt, bidder, tricks_played, lead_suit,
                   trick_cards, rng, played>>
    /\ UNCHANGED callvars

\* get_cards, one iteration of the inner loop: player.hand.add_card(deck.draw())
DealCard ==
    /\ pc = "deal"
    /\ LET p == players[(dealt % num_players) + 1] IN
           /\ hand' = [hand EXCEPT ![p] = Append(@, PopCard(deck))]
           /\ deck' = PopRest(deck)
    /\ dealt' = dealt + 1
    /\ pc' = AfterDeal(dealt + 1)
    /\ bidder' = 0
    /\ UNCHANGED <<round, trump_suit, tricks_won, bid, player_score,
                   tricks_played, lead_suit, trick_cards, rng, played>>
    /\ UNCHANGED callvars

\* the phase reached once n players have bid
AfterBid(n) ==
    IF n < num_players THEN "bid"
    ELSE IF round_info[round].cards > 0 THEN "play" ELSE "score"

\* bidding_phase, one iteration: player.make_bid(max_tricks, total_bid, trump_suit)
Bid ==
    /\ pc = "bid"
    /\ LET p == players[bidder + 1] IN
           bid' = [bid EXCEPT
                      ![p] = make_bid(round_info[round].cards, total_bid, rng)]
    /\ rng' = NextRng(rng)
    /\ bidder' = bidder + 1
    /\ pc' = AfterBid(bidder + 1)
    /\ tricks_played' = 0
    /\ lead_suit' = None
    /\ trick_cards' = <<>>
    /\ UNCHANGED <<round, trump_suit, deck, hand, tricks_won, player_score,
                   dealt, played>>
    /\ UNCHANGED callvars

\* play_trick, one iteration: the next player in turn order plays a card
PlayCard ==
    /\ pc = "play"
    /\ Len(trick_cards) < num_players
    /\ LET i == Len(trick_cards)
           p == players[i + 1]
           played_card == play_card(hand[p], lead_suit, trump_suit)
       IN  IF hand[p] = <<>>
           THEN \* play_card returned None: played_card.suit raises for
                \* the leader, later players append (player, None)
                /\ hand' = hand
                /\ played' = played
                /\ IF i = 0
                   THEN pc' = "crashed" /\ UNCHANGED <<lead_suit, trick_cards>>
                   ELSE /\ pc' = pc
                        /\ lead_suit' = lead_suit
                        /\ trick_cards' = Append(trick_cards,
                               [player |-> p, card |-> None])
           ELSE /\ hand' = [hand EXCEPT ![p] = RemoveFirst(@, played_card)]
                /\ lead_suit' = IF i = 0 THEN played_card.suit ELSE lead_suit
                /\ trick_cards' = Append(trick_cards,
                       [player |-> p, card |-> played_card])
                /\ played' = Append(played,
                       [player |-> p, card |-> played_card])
                /\ pc' = pc
    /\ UNCHANGED <<round, trump_suit, deck, tricks_won, bid, player_score,
                   dealt, bidder, tricks_played, rng>>
    /\ UNCHANGED callvars

\* mutant of EndTrick: play_round runs one trick more than the round has
EndTrick_ExtraTrick ==
    /\ pc = "play"
    /\ Len(trick_cards) = num_players
    /\ trick_cards' = <<>>
    /\ lead_suit' = None
    /\ IF tricks_played + 1 <= round_info[round].cards
       THEN tricks_played' = tricks_played + 1 /\ pc' = "play"
       ELSE tricks_played' = 0 /\ pc' = "score"
    /\ UNCHANGED <<round, trump_suit, deck, hand, tricks_won, bid,
                   player_score, dealt, bidder, rng, played>>
    /\ UNCHANGED callvars

\* mutant of EndTrick: after the last trick the round is advanced unscored
EndTrick_SkipScore ==
    /\ pc = "play"
    /\ Len(trick_cards) = num_players
    /\ trick_cards' = <<>>
    /\ lead_suit' = None
    /\ IF tricks_played + 1 < round_info[round].cards
       THEN tricks_played' = tricks_played + 1 /\ pc' = "play"
       ELSE tricks_played' = 0 /\ pc' = "advance"
    /\ UNCHANGED <<round, trump_suit, deck, hand, tricks_won, bid,
                   player_score, dealt, bidder, rng, played>>
    /\ UNCHANGED callvars

\* play_trick returns and play_round moves to the next trick
EndTrick ==
    /\ pc = "play"
    /\ Len(trick_cards) = num_players
    /\ trick_cards' = <<>>
    /\ lead_suit' = None
    /\ IF tricks_played + 1 < round_info[round].cards
       THEN tricks_played' = tricks_played + 1 /\ pc' = "play"
       ELSE tricks_played' = 0 /\ pc' = "score"
    /\ UNCHANGED <<round, trump_suit, deck, hand, tricks_won, bid,
                   player_score, dealt, bidder, rng, played>>
    /\ UNCHANGED callvars

\* mutant of score_gain: a missed bid costs the tricks instead of paying them
score_gain_penalty(won, b) == IF won = b THEN won + 10 ELSE 0 - won

\* score_round: the amount one player gains
score_gain(won, b) == won + (IF won = b THEN 10 ELSE 0)

\* score_round over all players
ScoreRound ==
    /\ pc = "score"
    /\ player_score' = [p \in Players |->
           player_score[p] + score_gain(tricks_won[p], bid[p])]
    /\ pc' = "advance"
    /\ UNCHANGED <<round, trump_suit, deck, hand, tricks_won, bid, dealt,
                   bidder, tricks_played, lead_suit, trick_cards, rng, played>>
    /\ UNCHANGED callvars

\* mutant of NextRound: the scores are cleared with the hands
NextRound_ResetScore ==
    /\ pc = "advance"
    /\ hand' = [p \in Players |-> <<>>]
    /\ player_score' = [p \in Players |-> 0]
    /\ round' = round + 1
    /\ pc' = "while"
    /\ UNCHANGED <<trump_suit, deck, tricks_won, bid, dealt,
                   bidder, tricks_played, lead_suit, trick_cards, rng, played>>
    /\ UNCHANGED callvars

\* next_round
NextRound ==
    /\ pc = "advance"
    /\ hand' = [p \in Players |-> <<>>]
    /\ round' = round + 1
    /\ pc' = "while"
    /\ UNCHANGED <<trump_suit, deck, tricks_won, bid, player_score, dealt,
                   bidder, tricks_played, lead_suit, trick_cards, rng, played>>
    /\ UNCHANGED callvars

Next ==
    \/ StartRound
    \/ GameOver
    \/ DealCard
    \/ Bid
    \/ PlayCard
    \/ EndTrick
    \/ ScoreRound
    \/ NextRound

\* the game run by play_game
Spec == Init /\ [][Next]_vars

\* play_game is a sequential program: it keeps taking steps until it returns
FairSpec == Spec /\ WF_vars(Next)

(***************************************************************************)
(* score_round applied to a list of players with arbitrary tricks_won and  *)
(* bid: the players are those of a new GameState whose fields were set.    *)
(***************************************************************************)
InitScore ==
    /\ round = 1
    /\ trump_suit = None
    /\ deck = generate_deck
    /\ hand = [p \in Players |-> <<>>]
    /\ tricks_won \in [Players -> 0..MaxUnit]
    /\ bid \in [Players -> 0..MaxUnit]
    /\ \E s0 \in 0..MaxStartScore : player_score = [p \in Players |-> s0]
    /\ pc = "score"
    /\ dealt = 0
    /\ bidder = 0
    /\ tricks_played = 0
    /\ lead_suit = None
    /\ trick_cards = <<>>
    /\ rng = 0
    /\ played = <<>>
    /\ NoCall

SpecScore == InitScore /\ [][ScoreRound]_vars

(***************************************************************************)
(* Deck.draw(num_cards) called directly on a deck that holds the first k   *)
(* cards of a new deck (the state of a Deck after 52 - k draws).           *)
(***************************************************************************)
InitDraw ==
    /\ round = 1
    /\ trump_suit = None
    /\ \E k \in 0..MaxDeckLen : deck = SubSeq(generate_deck, 1, k)
    /\ hand = [p \in Players |-> <<>>]
    /\ tricks_won = [p \in Players |-> 0]
    /\ bid = [p \in Players |-> 0]
    /\ player_score = [p \in Players |-> 0]
    /\ pc = "draw"
    /\ dealt = 0
    /\ bidder = 0
    /\ tricks_played = 0
    /\ lead_suit = None
    /\ trick_cards = <<>>
    /\ rng = 0
    /\ played = <<>>
    /\ num_cards \in 0..MaxDrawCount
    /\ drawn = <<>>
    /\ max_tricks = 0
    /\ total_bids = 0

\* range(min(num_cards, len(self.cards))): the number of pops of the list form
DrawCount(cards, n) ==
    IF n < 0 THEN 0 ELSE IF n < Len(cards) THEN n ELSE Len(cards)

\* Deck.draw: num_cards == 1 pops once unconditionally (IndexError on an
\* empty list) and returns the card itself, recorded here as a one-card
\* list; any other num_cards returns the list of min(num_cards, len) pops
Draw ==
    /\ pc = "draw"
    /\ IF num_cards = 1
       THEN IF deck = <<>>
            THEN pc' = "IndexError" /\ UNCHANGED <<deck, drawn>>
            ELSE /\ drawn' = <<PopCard(deck)>>
                 /\ deck' = PopRest(deck)
                 /\ pc' = "returned"
       ELSE /\ drawn' = [i \in 1..DrawCount(deck, num_cards) |->
                            deck[Len(deck) - i + 1]]
            /\ deck' = SubSeq(deck, 1, Len(deck) - DrawCount(deck, num_cards))
            /\ pc' = "returned"
    /\ UNCHANGED <<round, trump_suit, hand, tricks_won, bid, player_score,
                   dealt, bidder, tricks_played, lead_suit, trick_cards, rng,
                   played, num_cards, max_tricks, total_bids>>

SpecDraw == InitDraw /\ [][Draw]_vars

(***************************************************************************)
(* BotPlayer.make_bid(max_tricks, total_bids, trump_suit) called directly  *)
(* on the first player of a new GameState.                                 *)
(***************************************************************************)
InitBid ==
    /\ round = 1
    /\ trump_suit = None
    /\ deck = generate_deck
    /\ hand = [p \in Players |-> <<>>]
    /\ tricks_won = [p \in Players |-> 0]
    /\ bid = [p \in Players |-> 0]
    /\ player_score = [p \in Players |-> 0]
    /\ pc = "make_bid"
    /\ dealt = 0
    /\ bidder = 0
    /\ tricks_played = 0
    /\ lead_suit = None
    /\ trick_cards = <<>>
    /\ rng \in 0..(NumSeeds - 1)
    /\ played = <<>>
    /\ num_cards = 0
    /\ drawn = <<>>
    /\ max_tricks \in 0..MaxTricksArg
    /\ total_bids \in 0..max_tricks

\* BotPlayer.make_bid on players[0]
MakeBid ==
    /\ pc = "make_bid"
    /\ bid' = [bid EXCEPT ![players[1]] = make_bid(max_tricks, total_bids, rng)]
    /\ rng' = NextRng(rng)
    /\ pc' = "bid_made"
    /\ UNCHANGED <<round, trump_suit, deck, hand, tricks_won, player_score,
                   dealt, bidder, tricks_played, lead_suit, trick_cards,
                   played>>
    /\ UNCHANGED callvars

SpecBid == InitBid /\ [][MakeBid]_vars

(***************************************************************************)
(* Properties.                                                             *)
(***************************************************************************)
RECURSIVE SumSeq(_)
SumSeq(q) == IF q = <<>> THEN 0 ELSE q[1] + SumSeq(Tail(q))

\* sum of a per-player quantity over the players in turn order
SumOver(f) == SumSeq([i \in 1..num_players |-> f[players[i]]])

HandTotal == SumSeq([i \in 1..num_players |-> Len(hand[players[i]])])

\* number of tricks of the current round
TricksThisRound == round_info[round].cards

\* the card suit a trump name of the round schedule stands for
SuitOfTrump(t) ==
    CASE t = "Hearts" -> "H"
      [] t = "Clubs" -> "C"
      [] t = "Diamonds" -> "D"
      [] t = "Spades" -> "S"
      [] OTHER -> None

\* all hands in turn order followed by the deck
AllCards ==
    hand[players[1]] \o hand[players[2]] \o hand[players[3]]
        \o hand[players[4]] \o deck

\* C1: in a round with more than zero tricks, once all agents have bid the
\* sum of the bids differs from the number of tricks of the round.
C1_BidSumNotTricks ==
    (pc \in {"play", "score", "advance"} /\ TricksThisRound > 0)
        => SumOver(bid) # TricksThisRound

\* C2: when score_round runs, the tricks_won of all agents sum to the number
\* of tricks dealt in the round.
C2_TricksWonSumToTricks ==
    pc = "score" => SumOver(tricks_won) = TricksThisRound

\* the plays of the current trick whose card has the given suit
PlaysOfSuit(suit) ==
    LET Test(e) == e.card.suit = suit IN SelectSeq(trick_cards, Test)

\* the player of the highest-value card among the given plays
HighestPlay(plays) ==
    plays[CHOOSE i \in 1..Len(plays) :
             \A j \in 1..Len(plays) : plays[j].card.value <= plays[i].card.value
         ].player

\* the winner of the completed trick by the rule of the trick resolver
RuleWinner ==
    IF PlaysOfSuit(SuitOfTrump(trump_suit)) # <<>>
    THEN HighestPlay(PlaysOfSuit(SuitOfTrump(trump_suit)))
    ELSE HighestPlay(PlaysOfSuit(trick_cards[1].card.suit))

\* C3: for every completed trick the winner that is determined is the agent
\* of the highest trump card if a trump was played, and otherwise the agent
\* of the highest card of the lead suit.
C3_WinnerIsHighestTrumpOrLead ==
    (pc = "play" /\ Len(trick_cards) = num_players)
        => determine_trick_winner = RuleWinner

\* C4: within a round the phases follow each other in the order DEAL, BID,
\* PLAY_TRICKS, SCORE, ADVANCE; a phase is entered only from its predecessor,
\* the round number changes only in ADVANCE, and the next DEAL is entered
\* only from the loop head that follows ADVANCE.
C4_PhaseOrder ==
    [][ /\ (pc = "while" => pc' \in {"deal", "done"})
        /\ (pc = "deal" => pc' \in {"deal", "bid"})
        /\ (pc = "bid" => pc' \in {"bid", "play"})
        /\ (pc = "play" => pc' \in {"play", "score"})
        /\ (pc = "score" => pc' = "advance")
        /\ (pc = "advance" => pc' = "while" /\ round' = round + 1)
        /\ (pc = "done" => pc' = "done")
        /\ (round' # round => pc = "advance")
      ]_vars

\* C4 witness: the DEAL of the second round has started, after one ADVANCE
C4_Witness == pc = "deal" /\ round = 2 /\ dealt > 0

\* C5: the game terminates; at GAME_OVER the round number is 11, which only
\* ADVANCE increments, one at a time (ten ADVANCE transitions); in every
\* phase of a round the round number is in 1..10 and the hand size of
\* round r is 11 - r.
C5_TerminatesAfterTenRounds ==
    /\ <>(pc = "done")
    /\ [](pc = "done" => round = 11)
    /\ [][round' # round => (pc = "advance" /\ round' = round + 1)]_vars
    /\ [](pc \in {"deal", "bid", "play", "score", "advance"}
            => (round \in 1..10 /\ TricksThisRound = 11 - round))

\* C5 witness: GAME_OVER is reached with ten rounds advanced
C5_Witness == pc = "done" /\ round = 11

\* C6: after the DEAL of any round every agent holds T cards, the deck holds
\* 52 - 4T cards, and hands and deck together hold each of the 52 cards
\* exactly once.
C6_DealConservation ==
    pc = "bid" =>
        /\ \A p \in Players : Len(hand[p]) = TricksThisRound
        /\ Len(deck) = 52 - num_players * TricksThisRound
        /\ Len(AllCards) = 52
        /\ \A r \in DOMAIN RANK_VALUES : \A su \in {"S", "D", "C", "H"} :
               Cardinality({i \in 1..Len(AllCards) :
                   AllCards[i].rank = r /\ AllCards[i].suit = su}) = 1

\* C6 witness: the deal of a round after the first is complete
C6_Witness ==
    /\ pc = "bid"
    /\ round = 2
    /\ \A p \in Players : Len(hand[p]) = 9
    /\ Len(deck) = 16

\* C7 as stated: at every point of dealing, bidding, trick play and scoring
\* the hand sizes plus the deck size are 52.
C7_HandsPlusDeckIs52 ==
    pc \in {"deal", "bid", "play", "score"} => HandTotal + Len(deck) = 52

\* C7 amended: at every point of a round the hand sizes plus the deck size
\* plus the number of cards played to tricks in the round are 52; during
\* dealing and bidding no card has been played and hands plus deck are 52.
C7_HandsDeckPlayedIs52 ==
    pc \in {"deal", "bid", "play", "score"} =>
        /\ HandTotal + Len(deck) + Len(played) = 52
        /\ (pc \in {"deal", "bid"} => HandTotal + Len(deck) = 52)
        /\ (pc = "play" =>
               Len(played) = num_players * tricks_played + Len(trick_cards))
        /\ (pc = "score" => Len(played) = num_players * TricksThisRound)

\* C7 witness: a card has been played and hands plus deck are below 52
C7_Witness ==
    /\ pc = "play"
    /\ Len(played) = 5
    /\ HandTotal + Len(deck) = 47

\* C8: score_round changes each agent's score by tricks_won + 10 when
\* tricks_won equals the bid and by tricks_won otherwise.
C8_ScoreGain ==
    [][ (pc = "score" /\ pc' = "advance") =>
            \A p \in Players :
                player_score'[p] - player_score[p] =
                    IF tricks_won[p] = bid[p]
                    THEN tricks_won[p] + 10
                    ELSE tricks_won[p]
      ]_vars

\* C8 witness: scored from 0, tricks_won = bid = 3 gained 13 and
\* tricks_won = 2 with bid = 3 gained 2
C8_Witness ==
    /\ pc = "advance"
    /\ \E p \in Players :
           tricks_won[p] = 3 /\ bid[p] = 3 /\ player_score[p] = 13
    /\ \E q \in Players :
           tricks_won[q] = 2 /\ bid[q] = 3 /\ player_score[q] = 2

\* C9: after next_round every agent's hand is empty, its tricks_won and bid
\* are 0 and its score is what it was before.
C9_AdvanceResets ==
    [][ (pc = "advance" /\ pc' = "while") =>
            /\ \A p \in Players :
                   hand'[p] = <<>> /\ tricks_won'[p] = 0 /\ bid'[p] = 0
            /\ player_score' = player_score
      ]_vars

\* C10: every agent after the leader is given the suit of the leader's card
\* as lead suit and, holding a card of that suit, plays a card of that suit.
C10_FollowSuit ==
    [][ (pc = "play" /\ Len(trick_cards) >= 1
           /\ Len(trick_cards') = Len(trick_cards) + 1) =>
            LET p == players[Len(trick_cards) + 1]
                led == trick_cards[1].card.suit
                c == trick_cards'[Len(trick_cards')].card
            IN  /\ lead_suit = led
                /\ (\E k \in 1..Len(hand[p]) : hand[p][k].suit = led)
                       => c.suit = led
      ]_vars

\* C10 witness: the second agent followed the leader's suit although it
\* still holds a lower card of another suit
C10_Witness ==
    /\ pc = "play"
    /\ Len(trick_cards) = 2
    /\ trick_cards[2].card.suit = trick_cards[1].card.suit
    /\ \E k \in 1..Len(hand[players[2]]) :
           /\ hand[players[2]][k].suit # trick_cards[1].card.suit
           /\ hand[players[2]][k].value < trick_cards[2].card.value

\* the winner of a sequence of plays by the rule of the trick resolver
WinnerOfPlays(plays) ==
    LET IsTrump(e) == e.card.suit = SuitOfTrump(trump_suit)
        IsLead(e) == e.card.suit = plays[1].card.suit
    IN  IF SelectSeq(plays, IsTrump) # <<>>
        THEN HighestPlay(SelectSeq(plays, IsTrump))
        ELSE HighestPlay(SelectSeq(plays, IsLead))

\* the plays of the last completed trick of the round
PreviousTrick ==
    SubSeq(played, num_players * (tricks_played - 1) + 1,
           num_players * tricks_played)

\* C11: the first trick of a round is led by the first agent in turn order
\* and every later trick of the round is led by the agent that won the
\* trick before it.
C11_WinnerLeadsNext ==
    (pc = "play" /\ Len(trick_cards) >= 1) =>
        trick_cards[1].player =
            IF tricks_played = 0 THEN players[1]
            ELSE WinnerOfPlays(PreviousTrick)

\* the card is among the cards
InCards(c, cards) == \E k \in 1..Len(cards) : cards[k] = c

\* C12: a card played to a trick was in the agent's hand before the play,
\* the play removes it (the hand shrinks by one, no other hand changes),
\* and no played card is in any hand for the rest of the round.
C12_PlayedCardLeavesHand ==
    /\ [][ (pc = "play" /\ Len(trick_cards') = Len(trick_cards) + 1) =>
               LET e == trick_cards'[Len(trick_cards')] IN
                   /\ InCards(e.card, hand[e.player])
                   /\ ~InCards(e.card, hand'[e.player])
                   /\ Len(hand'[e.player]) = Len(hand[e.player]) - 1
                   /\ \A q \in Players \ {e.player} : hand'[q] = hand[q]
         ]_vars
    /\ [](\A i \in 1..Len(played) : \A q \in Players :
              ~InCards(played[i].card, hand[q]))

\* C12 witness: in the second trick of a round the cards of the first trick
\* are out of every hand while cards are still held
C12_Witness ==
    /\ pc = "play"
    /\ Len(played) = 6
    /\ Len(hand[players[4]]) > 0
    /\ \A i \in 1..Len(played) : \A q \in Players :
           ~InCards(played[i].card, hand[q])

\* C13: at every point of the game each agent's bid is in
\* [0, hand size of the current round].
C13_BidWithinHandSize ==
    round \in 1..10 =>
        \A p \in Players : bid[p] >= 0 /\ bid[p] <= TricksThisRound

\* the bid that players[n] has just made is outside [0, max_tricks], or
\* players[n] is the last bidder and the bid makes the bids of the round
\* sum to the number of tricks
IllegalBid(b, n) ==
    \/ b[players[n]] < 0
    \/ b[players[n]] > TricksThisRound
    \/ /\ n = num_players
       /\ TricksThisRound > 0
       /\ b[players[n]] = TricksThisRound
              - SumSeq([i \in 1..(n - 1) |-> b[players[i]]])

\* C14: a returned bid that is out of range, or that is the last bidder's
\* hook value, is not accepted: bidding does not go on and PLAY_TRICKS is
\* not entered with it.
C14_IllegalBidRejected ==
    [][ (pc = "bid" /\ bidder' = bidder + 1 /\ IllegalBid(bid', bidder'))
            => pc' \notin {"bid", "play", "score"}
      ]_vars

Min2(a, b) == IF a < b THEN a ELSE b

\* the sequence in reverse order
Reversed(q) == [i \in 1..Len(q) |-> q[Len(q) - i + 1]]

\* C15: draw(n) on a deck of k cards returns without error, returns
\* min(n, k) cards taken from the end of the deck and leaves the other
\* k - min(n, k) cards.
C15_DrawTruncates ==
    pc \in {"returned", "IndexError"} =>
        /\ pc = "returned"
        /\ Len(drawn) = Min2(num_cards, Len(deck) + Len(drawn))
        /\ deck \o Reversed(drawn)
               = SubSeq(generate_deck, 1, Len(deck) + Len(drawn))

\* C16: an agent's score changes only in the SCORE phase and never
\* decreases; DEAL, BID, PLAY_TRICKS and ADVANCE leave every score unchanged.
C16_ScoreOnlyInScorePhase ==
    [][ /\ (player_score' # player_score => pc = "score")
        /\ \A p \in Players : player_score'[p] >= player_score[p]
      ]_vars

\* C16 witness: a score gained in the first round is still there during the
\* trick play of the second round
C16_Witness ==
    /\ pc = "play"
    /\ round = 2
    /\ \E p \in Players : player_score[p] > 0

\* C17: the total handed to the next bidder's make_bid is the sum of the
\* bids already made in this round by the agents before it.
C17_TotalBidTracksBids ==
    pc = "bid" =>
        total_bid = SumSeq([i \in 1..bidder |-> bid[players[i]]])

\* C18: for max_tricks > 0 and total_bids in [0, max_tricks] the bid set by
\* make_bid is in [0, max_tricks] and differs from max_tricks - total_bids.
C18_BidAvoidsHook ==
    (pc = "bid_made" /\ max_tricks > 0) =>
        /\ bid[players[1]] \in 0..max_tricks
        /\ bid[players[1]] # max_tricks - total_bids

\* C19: in a round with a trump suit, an agent after the leader that holds
\* no card of the lead suit and holds a card of the round's trump suit plays
\* its lowest trump card.
C19_LowestTrumpWhenVoid ==
    [][ (pc = "play" /\ Len(trick_cards) >= 1
           /\ Len(trick_cards') = Len(trick_cards) + 1
           /\ SuitOfTrump(trump_suit) # None) =>
            LET p == players[Len(trick_cards) + 1]
                c == trick_cards'[Len(trick_cards')].card
                trumps == CardsOfSuit(hand[p], SuitOfTrump(trump_suit))
            IN  (CardsOfSuit(hand[p], trick_cards[1].card.suit) = <<>>
                   /\ trumps # <<>>)
                    => c = MinCard(trumps)
      ]_vars

\* C20: in a round with T tricks every agent plays one card in each trick:
\* during trick play every agent holds T minus the number of cards it has
\* played, a card is only requested from a non-empty hand, and after the
\* last trick every hand is empty.
C20_OneCardPerTrick ==
    /\ pc # "crashed"
    /\ pc = "play" =>
           /\ \A i \in 1..num_players :
                  Len(hand[players[i]]) = TricksThisRound - tricks_played
                      - (IF i <= Len(trick_cards) THEN 1 ELSE 0)
           /\ tricks_played < TricksThisRound
           /\ Len(trick_cards) < num_players
                  => hand[players[Len(trick_cards) + 1]] # <<>>
    /\ pc \in {"score", "advance"} =>
           /\ \A p \in Players : hand[p] = <<>>
           /\ Len(played) = num_players * TricksThisRound

\* C20 witness: the eight tricks of the third round have been played and
\* every hand is empty
C20_Witness ==
    /\ pc = "score"
    /\ round = 3
    /\ Len(played) = 32
    /\ \A p \in Players : hand[p] = <<>>

====
